---- MODULE Spec2Model ----
(***************************************************************************)
(* The image handlers of the varlink API (pkg/varlinkapi/images.go) over   *)
(* the image store of the libpod runtime.                                  *)
(*                                                                         *)
(* Spec      : the store handlers, one atomic action per RPC call, with    *)
(*             the container references changing between calls.           *)
(* SpecBuild : one BuildImage call, its poll loop interleaved step by step *)
(*             with the background build task.                             *)
(*                                                                         *)
(* SpecBuildFair : SpecBuild with a terminating build and fair scheduling. *)
(* SpecBuildRace : SpecBuild with each access to the log buffer in two     *)
(*             steps, entered and left.                                    *)
(*                                                                         *)
(* SpecSearch, SpecImport : SearchImage and ImportImage calls.             *)
(* SpecConc  : one call of ListImages, GetImage, DeleteUnusedImages or     *)
(*             ImagesPrune going through its engine calls one at a time    *)
(*             while other calls change the store in between.              *)
(*                                                                         *)
(* Names (image IDs, tags, references, formats) are sequences of           *)
(* one-character strings, so that prefix tests are computed.               *)
(***************************************************************************)
EXTENDS Naturals, Sequences, FiniteSets

VARIABLES
  store,    \* the image store
  last,     \* the last store call: its arguments, the store before it, its reply
  config,   \* BuildImage: the request being served
  hpc,      \* BuildImage: where the handler is
  tpc,      \* the background build task: where it is
  berr,     \* the error runtime.Build ended with, "" for none
  output,   \* the report buffer: the lines written and not yet read
  nwritten, \* how many lines the build has written so far
  log,      \* the handler's accumulated batch of lines
  replies,  \* the replies BuildImage has sent, in order
  run       \* a call served step by step next to other calls: where it is, what it holds

Range(s) == {s[k] : k \in 1..Len(s)}

\* strings.HasPrefix(s, p)
HasPrefix(s, p) == Len(s) >= Len(p) /\ SubSeq(s, 1, Len(p)) = p

NoDup(s) == \A j, k \in 1..Len(s) : s[j] = s[k] => j = k

Occurrences(s, x) == Cardinality({k \in 1..Len(s) : s[k] = x})

RECURSIVE Without(_, _)
Without(s, x) ==
  IF s = <<>> THEN <<>>
  ELSE IF s[1] = x THEN Without(Tail(s), x)
  ELSE <<s[1]>> \o Without(Tail(s), x)

(***************************************************************************)
(* Bounds and the small universe of the store.                             *)
(***************************************************************************)
MaxCtrs == 1
MaxLines == 2
MaxPartial == 2

IdA1 == <<"a", "1">>
IdA2 == <<"a", "2">>
AllIDs == {IdA1, IdA2}
\* the order in which the store lists its images
IDOrder == <<IdA1, IdA2>>

TagP1 == <<"p", ":", "1">>
TagQ1 == <<"q", ":", "1">>
TagNames == {TagP1, TagQ1}
Ghost == <<"z", ":", "0">>
\* what a caller may pass as nameOrID: IDs, ID prefixes, tags, an unknown name
NameInputs == AllIDs \cup {<<"a">>} \cup TagNames \cup {Ghost}

NoImage == <<>>
NoStr == <<>>

EmptyStore ==
  [images |-> {}, names |-> [i \in AllIDs |-> <<>>], ctrs |-> [i \in AllIDs |-> 0]]

(***************************************************************************)
(* The image store (libpod/image, libpod runtime): modelled from the       *)
(* specification, sections 3 and 4.1.                                      *)
(***************************************************************************)
\* Runtime.GetImages(): the snapshot, in store order
GetImages(s) == SelectSeq(IDOrder, LAMBDA i : i \in s.images)

\* Image.Names()
Names(s, id) == s.names[id]

\* len(Image.Containers())
Containers(s, id) == s.ctrs[id]

\* NewFromLocal(name): exact ID, else tag name, else unambiguous ID prefix
NewFromLocal(s, name) ==
  IF name \in s.images THEN name
  ELSE IF \E i \in s.images : name \in Range(s.names[i])
       THEN CHOOSE i \in s.images : name \in Range(s.names[i])
  ELSE IF Cardinality({i \in s.images : HasPrefix(i, name)}) = 1
       THEN CHOOSE i \in s.images : HasPrefix(i, name)
  ELSE NoImage

\* Tag(image, name): append if absent; a name is an alias of one image only
StoreTag(s, id, tag) ==
  [s EXCEPT !.names =
     [i \in AllIDs |->
        IF i = id
        THEN IF tag \in Range(s.names[i]) THEN s.names[i] ELSE Append(s.names[i], tag)
        ELSE Without(s.names[i], tag)]]

\* Remove(image, force) refuses an image in use unless forced
InUse(s, id, force) == ~force /\ s.ctrs[id] > 0

\* Remove(image, force): the entry and all of its tags go together
StoreRemove(s, id) ==
  [images |-> s.images \ {id},
   names  |-> [s.names EXCEPT ![id] = <<>>],
   ctrs   |-> [s.ctrs EXCEPT ![id] = 0]]

\* the Prune Set: the images without a referencing container, in store order
GetPruneImages(s) == SelectSeq(GetImages(s), LAMBDA i : s.ctrs[i] = 0)

\* a new image enters the store under the given names
StoreAdd(s, id, tags) ==
  IF id \in s.images THEN
    [s EXCEPT !.names =
       [i \in AllIDs |->
          IF i = id
          THEN s.names[i] \o SelectSeq(tags, LAMBDA t : t \notin Range(s.names[i]))
          ELSE SelectSeq(s.names[i], LAMBDA t : t \notin Range(tags))]]
  ELSE
    [images |-> s.images \cup {id},
     names  |-> [i \in AllIDs |->
                   IF i = id THEN tags
                   ELSE SelectSeq(s.names[i], LAMBDA t : t \notin Range(tags))],
     ctrs   |-> [s.ctrs EXCEPT ![id] = 0]]

(***************************************************************************)
(* Replies.  A fault is ImageNotFound or ErrorOccurred with its reason;    *)
(* NoReply is a handler that returned a bare error without replying.       *)
(***************************************************************************)
Reply(kind, id, ids, list) ==
  [kind |-> kind, id |-> id, ids |-> ids, list |-> list, reason |-> "", fault |-> FALSE]

Fault(kind, reason) ==
  [kind |-> kind, id |-> NoStr, ids |-> <<>>, list |-> <<>>, reason |-> reason, fault |-> TRUE]

NoReply(reason) ==
  [kind |-> "NoReply", id |-> NoStr, ids |-> <<>>, list |-> <<>>, reason |-> reason, fault |-> FALSE]

Out(s, r) == [store |-> s, reply |-> r]

NoCall == [op |-> "none", name |-> NoStr, tag |-> NoStr, force |-> FALSE, pre |-> EmptyStore,
           reply |-> NoReply("")]

Call(op, name, tag, force, pre, r) ==
  [op |-> op, name |-> name, tag |-> tag, force |-> force, pre |-> pre, reply |-> r]

(***************************************************************************)
(* What the engine can fail at during one call (an input of the call).     *)
(***************************************************************************)
EngineFaults == {"none", "GetImages", "Containers", "Labels", "RepoDigests", "Size", "IsParent"}

Summary(s, id, fk, fid) ==
  [Id |-> id, RepoTags |-> Names(s, id),
   Containers |-> IF fk = "Containers" /\ fid = id THEN 0 ELSE Containers(s, id)]

\* ListImages, the loop over the snapshot (lines 41-68)
RECURSIVE ListLoop(_, _, _, _, _)
ListLoop(s, todo, acc, fk, fid) ==
  IF todo = <<>> THEN Reply("ListImages", NoStr, <<>>, acc)
  ELSE IF Head(todo) = fid /\ fk = "RepoDigests" THEN NoReply("error")
  ELSE IF Head(todo) = fid /\ fk = "IsParent" THEN Fault("ErrorOccurred", "IsParent")
  ELSE IF Head(todo) = fid /\ fk = "Size" THEN NoReply("panic: nil size")
  ELSE ListLoop(s, Tail(todo), Append(acc, Summary(s, Head(todo), fk, fid)), fk, fid)

\* ListImages (lines 35-70)
ListImagesCall(s, fk, fid) ==
  IF fk = "GetImages" THEN Out(s, Fault("ErrorOccurred", "unable to get list of images"))
  ELSE Out(s, ListLoop(s, GetImages(s), <<>>, fk, fid))

\* GetImage (lines 73-107)
GetImageCall(s, name, fk) ==
  LET id == NewFromLocal(s, name) IN
  IF id = NoImage THEN Out(s, Fault("ImageNotFound", "no such image"))
  ELSE IF fk \in {"Labels", "Containers", "RepoDigests", "Size"} THEN Out(s, NoReply("error"))
  ELSE Out(s, Reply("GetImage", id, <<>>, <<Summary(s, id, "none", NoImage)>>))

\* TagImage with its two arguments mixed up: the image is tagged with the lookup name
TagImageCall_Swapped(s, name, tag, fails) ==
  LET id == NewFromLocal(s, name) IN
  IF id = NoImage THEN Out(s, Fault("ImageNotFound", "no such image"))
  ELSE IF fails THEN Out(s, Fault("ErrorOccurred", "StoreError"))
  ELSE Out(StoreTag(s, id, name), Reply("TagImage", id, <<>>, <<>>))

\* TagImage (lines 382-391); fails: Image.TagImage reports an error
TagImageCall(s, name, tag, fails) ==
  LET id == NewFromLocal(s, name) IN
  IF id = NoImage THEN Out(s, Fault("ImageNotFound", "no such image"))
  ELSE IF fails THEN Out(s, Fault("ErrorOccurred", "StoreError"))
  ELSE Out(StoreTag(s, id, tag), Reply("TagImage", id, <<>>, <<>>))

\* Runtime.RemoveImage / Image.Remove: refused when in use, or failing in the store
ImageRemove(s, id, force, fails) ==
  IF InUse(s, id, force) THEN [err |-> "InUse", store |-> s]
  ELSE IF fails THEN [err |-> "StoreError", store |-> s]
  ELSE [err |-> "", store |-> StoreRemove(s, id)]

\* RemoveImage that always forces the removal
RemoveImageCall_Forced(s, name, force, fails) ==
  LET id == NewFromLocal(s, name) IN
  IF id = NoImage THEN Out(s, Fault("ImageNotFound", "no such image"))
  ELSE LET r == ImageRemove(s, id, TRUE, fails) IN
       IF r.err # "" THEN Out(s, Fault("ErrorOccurred", r.err))
       ELSE Out(r.store, Reply("RemoveImage", id, <<>>, <<>>))

\* RemoveImage that only drops the name it was given when the image has other names
RemoveImageCall_Untag(s, name, force, fails) ==
  LET id == NewFromLocal(s, name) IN
  IF id = NoImage THEN Out(s, Fault("ImageNotFound", "no such image"))
  ELSE IF Len(Names(s, id)) > 1 /\ name \in Range(Names(s, id))
       THEN Out([s EXCEPT !.names[id] = Without(@, name)], Reply("RemoveImage", id, <<>>, <<>>))
  ELSE LET r == ImageRemove(s, id, force, fails) IN
       IF r.err # "" THEN Out(s, Fault("ErrorOccurred", r.err))
       ELSE Out(r.store, Reply("RemoveImage", id, <<>>, <<>>))

\* RemoveImage that removes the entry before it reports the engine's error
RemoveImageCall_RemoveThenCheck(s, name, force, fails) ==
  LET id == NewFromLocal(s, name) IN
  IF id = NoImage THEN Out(s, Fault("ImageNotFound", "no such image"))
  ELSE LET r == ImageRemove(s, id, force, fails) IN
       IF r.err # "" THEN Out(StoreRemove(s, id), Fault("ErrorOccurred", r.err))
       ELSE Out(r.store, Reply("RemoveImage", id, <<>>, <<>>))

\* RemoveImage (lines 395-406)
RemoveImageCall(s, name, force, fails) ==
  LET id == NewFromLocal(s, name) IN
  IF id = NoImage THEN Out(s, Fault("ImageNotFound", "no such image"))
  ELSE LET r == ImageRemove(s, id, force, fails) IN
       IF r.err # "" THEN Out(s, Fault("ErrorOccurred", r.err))
       ELSE Out(r.store, Reply("RemoveImage", id, <<>>, <<>>))

\* ImagesPrune, the loop over the prune set (lines 638-643)
RECURSIVE PruneLoop(_, _, _, _)
PruneLoop(s, todo, pruned, bad) ==
  IF todo = <<>> THEN Out(s, Reply("ImagesPrune", NoStr, pruned, <<>>))
  ELSE LET r == ImageRemove(s, Head(todo), TRUE, Head(todo) \in bad) IN
       IF r.err # "" THEN Out(s, Fault("ErrorOccurred", r.err))
       ELSE PruneLoop(r.store, Tail(todo), Append(pruned, Head(todo)), bad)

\* ImagesPrune over every image of the store instead of the prune set
ImagesPruneCall_All(s, fk, bad) ==
  IF fk = "GetImages" THEN Out(s, NoReply("GetPruneImages"))
  ELSE PruneLoop(s, GetImages(s), <<>>, bad)

\* ImagesPrune (lines 630-645)
ImagesPruneCall(s, fk, bad) ==
  IF fk = "GetImages" THEN Out(s, NoReply("GetPruneImages"))
  ELSE PruneLoop(s, GetPruneImages(s), <<>>, bad)

\* DeleteUnusedImages, the loop over the snapshot (lines 450-461)
RECURSIVE DeleteLoop(_, _, _, _, _, _)
DeleteLoop(s, todo, deleted, fk, fid, bad) ==
  IF todo = <<>> THEN Out(s, Reply("DeleteUnusedImages", NoStr, deleted, <<>>))
  ELSE IF fk = "Containers" /\ fid = Head(todo) THEN Out(s, Fault("ErrorOccurred", "Containers"))
  ELSE IF Containers(s, Head(todo)) = 0
       THEN LET r == ImageRemove(s, Head(todo), FALSE, Head(todo) \in bad) IN
            IF r.err # "" THEN Out(s, Fault("ErrorOccurred", r.err))
            ELSE DeleteLoop(r.store, Tail(todo), Append(deleted, Head(todo)), fk, fid, bad)
  ELSE DeleteLoop(s, Tail(todo), deleted, fk, fid, bad)

\* DeleteUnusedImages (lines 444-463)
DeleteUnusedImagesCall(s, fk, fid, bad) ==
  IF fk = "GetImages" THEN Out(s, Fault("ErrorOccurred", "GetImages"))
  ELSE DeleteLoop(s, GetImages(s), <<>>, fk, fid, bad)

(***************************************************************************)
(* PullImage: the registry and the archives it can read from.              *)
(***************************************************************************)
\* dockerarchive.Transport.Name()
ArchiveScheme == <<"d", "o", "c", "k", "e", "r", "-", "a", "r", "c", "h", "i", "v", "e">>
ArchiveT == ArchiveScheme \o <<":", "t">>
ArchiveBad == ArchiveScheme \o <<":">>
ArchiveNoColon == ArchiveScheme \o <<"t">>
PullNames == TagNames \cup {Ghost, ArchiveT, ArchiveBad, ArchiveNoColon}

CredInputs == {"", "user:pw", "malformed"}
\* util.ParseRegistryCreds
ParseRegistryCredsOk(creds) == creds # "malformed"

\* the image a registry reference names, NoImage when the registry has none
RegistryImage(name) ==
  IF name = TagP1 THEN IdA1
  ELSE IF name = TagQ1 THEN IdA2
  ELSE NoImage

\* alltransports.ParseImageName on an archive name
ParseImageNameOk(name) == Len(name) > Len(ArchiveScheme) + 1

\* the image inside the archive: its ID and the names it was saved under
ArchiveImage(name) == [id |-> IdA2, tags |-> <<>>]

\* the outcome of a pull: the store, the reply and the transport that was asked
\* for the image ("archive": LoadFromArchiveReference, "registry": New)
PullOut(s, r, transport) == [store |-> s, reply |-> r, transport |-> transport]

\* PullImage that takes the scheme's letters for the scheme, colon or not
PullImageCall_PrefixNoColon(s, name, creds, fails) ==
  IF creds # "" /\ ~ParseRegistryCredsOk(creds)
  THEN PullOut(s, NoReply("ParseRegistryCreds"), "none")
  ELSE IF HasPrefix(name, ArchiveScheme)
  THEN IF ~ParseImageNameOk(name) THEN PullOut(s, NoReply("error parsing"), "none")
       ELSE IF fails THEN PullOut(s, NoReply("error pulling image"), "archive")
       ELSE LET a == ArchiveImage(name) IN
            PullOut(StoreAdd(s, a.id, a.tags), Reply("PullImage", a.id, <<>>, <<>>), "archive")
  ELSE IF fails \/ RegistryImage(name) = NoImage
       THEN PullOut(s, Fault("ErrorOccurred", "unable to pull"), "registry")
       ELSE PullOut(StoreAdd(s, RegistryImage(name), <<name>>),
                    Reply("PullImage", RegistryImage(name), <<>>, <<>>), "registry")

\* PullImage (lines 542-583); fails: the transport reports an error
PullImageCall(s, name, creds, fails) ==
  IF creds # "" /\ ~ParseRegistryCredsOk(creds)
  THEN PullOut(s, NoReply("ParseRegistryCreds"), "none")
  ELSE IF HasPrefix(name, ArchiveScheme \o <<":">>)
  THEN IF ~ParseImageNameOk(name) THEN PullOut(s, NoReply("error parsing"), "none")
       ELSE IF fails THEN PullOut(s, NoReply("error pulling image"), "archive")
       ELSE LET a == ArchiveImage(name) IN
            PullOut(StoreAdd(s, a.id, a.tags), Reply("PullImage", a.id, <<>>, <<>>), "archive")
  ELSE IF fails \/ RegistryImage(name) = NoImage
       THEN PullOut(s, Fault("ErrorOccurred", "unable to pull"), "registry")
       ELSE PullOut(StoreAdd(s, RegistryImage(name), <<name>>),
                    Reply("PullImage", RegistryImage(name), <<>>, <<>>), "registry")

(***************************************************************************)
(* ImageExists, HistoryImage, ExportImage, Commit and ContainerRunlabel.   *)
(***************************************************************************)
\* ImageExists (lines 586-595): the reply carries 0 when the image exists and
\* 1 when it does not; fails: NewFromLocal reports an error other than
\* ErrNoSuchImage
ImageExistsCall_AbsentIsError(s, name, fails) ==
  IF fails \/ NewFromLocal(s, name) = NoImage THEN Out(s, Fault("ErrorOccurred", "StoreError"))
  ELSE Out(s, Reply("ImageExists", NoStr, <<>>, <<0>>))

ImageExistsCall(s, name, fails) ==
  IF ~fails /\ NewFromLocal(s, name) = NoImage
  THEN Out(s, Reply("ImageExists", NoStr, <<>>, <<1>>))
  ELSE IF fails THEN Out(s, Fault("ErrorOccurred", "StoreError"))
  ELSE Out(s, Reply("ImageExists", NoStr, <<>>, <<0>>))

\* Image.History: the layers of an image in build order, the second image
\* being built on the first
History(id) == IF id = IdA1 THEN <<"l1">> ELSE <<"l1", "l2">>

\* iopodman.ImageHistory of one history entry (lines 316-323)
ImageHistory(s, id, hist) == [id |-> hist, tags |-> Names(s, id)]

\* HistoryImage (lines 305-327); fails: History reports an error
HistoryImageCall(s, name, fails) ==
  LET id == NewFromLocal(s, name) IN
  IF id = NoImage THEN Out(s, Fault("ImageNotFound", "no such image"))
  ELSE IF fails THEN Out(s, Fault("ErrorOccurred", "History"))
  ELSE Out(s, Reply("HistoryImage", NoStr, <<>>,
                    [k \in 1..Len(History(id)) |-> ImageHistory(s, id, History(id)[k])]))

\* the outcome of a call that may push; pushed: PushImageToHeuristicDestination was called
PushOut(s, r, pushed) == [store |-> s, reply |-> r, pushed |-> pushed]

\* ExportImage (lines 524-539); tagsok: image.GetAdditionalTags accepts the
\* tags, fails: the push to the destination reports an error
ExportImageCall(s, name, tagsok, fails) ==
  LET id == NewFromLocal(s, name) IN
  IF id = NoImage THEN PushOut(s, Fault("ImageNotFound", "no such image"), FALSE)
  ELSE IF ~tagsok THEN PushOut(s, NoReply("GetAdditionalTags"), FALSE)
  ELSE IF fails THEN PushOut(s, Fault("ErrorOccurred", "push failed"), TRUE)
  ELSE PushOut(s, Reply("ExportImage", id, <<>>, <<>>), TRUE)

\* InspectImage (lines 287-301); fk: what fails, newImage.Inspect or json.Marshal
InspectFaults == {"none", "Inspect", "Marshal"}
InspectImageCall(s, name, fk) ==
  LET id == NewFromLocal(s, name) IN
  IF id = NoImage THEN Out(s, Fault("ImageNotFound", "no such image"))
  ELSE IF fk = "Inspect" THEN Out(s, Fault("ErrorOccurred", "Inspect"))
  ELSE IF fk = "Marshal" THEN Out(s, Fault("ErrorOccurred", "unable to serialize"))
  ELSE Out(s, Reply("InspectImage", id, <<>>, <<>>))

\* ContainerRunlabel (lines 598-627) by what its helpers answer: GetRunlabel
\* fails, the image has no such label, GenerateRunlabelCommand fails, the
\* command fails, or the command runs
RunlabelOutcomes == {"GetRunlabel", "nolabel", "GenerateRunlabelCommand", "exec", "ok"}
ContainerRunlabelCall(s, outcome) ==
  IF outcome = "GetRunlabel" THEN Out(s, NoReply("GetRunlabel"))
  ELSE IF outcome = "nolabel" THEN Out(s, NoReply(""))
  ELSE IF outcome = "GenerateRunlabelCommand" THEN Out(s, NoReply("GenerateRunlabelCommand"))
  ELSE IF outcome = "exec" THEN Out(s, Fault("ErrorOccurred", "exec"))
  ELSE Out(s, Reply("ContainerRunlabel", NoStr, <<>>, <<>>))

Oci == <<"o", "c", "i">>
Docker == <<"d", "o", "c", "k", "e", "r">>
OciX == <<"o", "c", "i", "x">>
Oc == <<"o", "c">>
V2s2 == <<"v", "2", "s", "2">>
V2s1 == <<"v", "2", "s", "1">>
CommitFormats == {<<>>, Oci, Docker, OciX, V2s2}

\* the format names PushImage knows (lines 358-368), the empty one standing
\* for the default
PushFormatKnown(format) == format \in {<<>>, Oci, V2s1, V2s2, Docker}
PushFormats == {Oci, OciX}

\* what fails in a PushImage call: util.ParseRegistryCreds or the push itself
PushFaults == {"none", "ParseRegistryCreds", "push"}
\* the names PushImage and InspectImage are called with: an ID, a tag, an unknown name
LookupNames == {IdA1, TagP1, Ghost}

\* PushImage that looks at the format before it looks up the image
PushImageCall_FormatFirst(s, name, format, fk) ==
  LET id == NewFromLocal(s, name) IN
  IF ~PushFormatKnown(format) THEN PushOut(s, Fault("ErrorOccurred", "unknown format"), FALSE)
  ELSE IF id = NoImage THEN PushOut(s, Fault("ImageNotFound", "no such image"), FALSE)
  ELSE IF fk = "ParseRegistryCreds" THEN PushOut(s, NoReply("ParseRegistryCreds"), FALSE)
  ELSE IF fk = "push" THEN PushOut(s, Fault("ErrorOccurred", "push failed"), TRUE)
  ELSE PushOut(s, Reply("PushImage", id, <<>>, <<>>), TRUE)

\* PushImage (lines 330-379)
PushImageCall(s, name, format, fk) ==
  LET id == NewFromLocal(s, name) IN
  IF id = NoImage THEN PushOut(s, Fault("ImageNotFound", "no such image"), FALSE)
  ELSE IF fk = "ParseRegistryCreds" THEN PushOut(s, NoReply("ParseRegistryCreds"), FALSE)
  ELSE IF ~PushFormatKnown(format) THEN PushOut(s, Fault("ErrorOccurred", "unknown format"), FALSE)
  ELSE IF fk = "push" THEN PushOut(s, Fault("ErrorOccurred", "push failed"), TRUE)
  ELSE PushOut(s, Reply("PushImage", id, <<>>, <<>>), TRUE)

\* the containers a Commit can name: one of each image, and one that is not there
CtrC1 == <<"c", "1">>
CtrC2 == <<"c", "2">>
CtrGhost == <<"c", "9">>
CtrInputs == {CtrC1, CtrC2, CtrGhost}
CtrImage(c) == IF c = CtrC1 THEN IdA1 ELSE IF c = CtrC2 THEN IdA2 ELSE NoImage

\* Runtime.LookupContainer: the container is there
LookupContainer(s, c) ==
  /\ CtrImage(c) \in s.images
  /\ s.ctrs[CtrImage(c)] > 0

\* the ID of the image a commit of the container creates
CommitID(c) == IF c = CtrC1 THEN IdA2 ELSE IdA1

\* the media type of the requested format (lines 473-480), "" when unrecognized
CommitMimeType_Prefix(manifestType) ==
  IF manifestType = <<>> \/ HasPrefix(manifestType, Oci) THEN "OCIv1ImageManifest"
  ELSE IF HasPrefix(manifestType, Docker) THEN "DockerV2Schema2MediaType"
  ELSE ""

CommitMimeType(manifestType) ==
  IF manifestType = Oci \/ manifestType = <<>> THEN "OCIv1ImageManifest"
  ELSE IF manifestType = Docker THEN "DockerV2Schema2MediaType"
  ELSE ""

\* the outcome of a Commit: the store, the reply and whether ctr.Commit was invoked
CommitOut(s, r, invoked) == [store |-> s, reply |-> r, invoked |-> invoked]

\* Commit (lines 466-500); fails: ctr.Commit reports an error
CommitCall(s, name, imageName, manifestType, fails) ==
  IF ~LookupContainer(s, name) THEN CommitOut(s, Fault("ContainerNotFound", "no such container"), FALSE)
  ELSE IF CommitMimeType(manifestType) = ""
  THEN CommitOut(s, Fault("ErrorOccurred", "unrecognized image format"), FALSE)
  ELSE IF fails THEN CommitOut(s, Fault("ErrorOccurred", "commit failed"), TRUE)
  ELSE CommitOut(StoreAdd(s, CommitID(name), <<imageName>>),
                 Reply("Commit", CommitID(name), <<>>, <<>>), TRUE)

(***************************************************************************)
(* The store handlers as actions: each call is one step.                   *)
(***************************************************************************)
NoConfig == [format |-> <<>>, memory |-> "", memory_swap |-> "", tags |-> <<>>, more |-> FALSE]

bvars == <<config, hpc, tpc, berr, output, nwritten, log, replies>>

BuildIdle ==
  /\ config = NoConfig
  /\ hpc = "idle"
  /\ tpc = "none"
  /\ berr = ""
  /\ output = <<>>
  /\ nwritten = 0
  /\ log = <<>>
  /\ replies = <<>>

\* no call is being served step by step
NoRun ==
  [op |-> "none", pc |-> "idle", todo |-> <<>>, acc |-> <<>>, cur |-> 0, hist |-> {},
   muts |-> 0, inuse |-> {}, reply |-> NoReply("")]

Init == store = EmptyStore /\ last = NoCall /\ run = NoRun /\ BuildIdle

Done(op, name, tag, force, o) ==
  /\ store' = o.store
  /\ last' = Call(op, name, tag, force, store, o.reply)
  /\ UNCHANGED <<bvars, run>>

\* the record of a ListImages call: fk, fid say what the engine failed at
ListRecord(fk, fid, o) ==
  [op |-> "ListImages", name |-> NoStr, tag |-> NoStr, force |-> FALSE, pre |-> store,
   reply |-> o.reply, fk |-> fk, fid |-> fid]

ListImages ==
  \E fk \in EngineFaults, fid \in AllIDs :
    LET o == ListImagesCall(store, fk, fid) IN
    /\ store' = o.store
    /\ last' = ListRecord(fk, fid, o)
    /\ UNCHANGED <<bvars, run>>

GetImage ==
  \E name \in NameInputs, fk \in EngineFaults :
    Done("GetImage", name, NoStr, FALSE, GetImageCall(store, name, fk))

TagImage ==
  \E name \in NameInputs, tag \in TagNames, fails \in BOOLEAN :
    Done("TagImage", name, tag, FALSE, TagImageCall(store, name, tag, fails))

RemoveImage ==
  \E name \in NameInputs, force \in BOOLEAN, fails \in BOOLEAN :
    Done("RemoveImage", name, NoStr, force, RemoveImageCall(store, name, force, fails))

ImagesPrune ==
  \E fk \in {"none", "GetImages"}, bad \in SUBSET AllIDs :
    Done("ImagesPrune", NoStr, NoStr, FALSE, ImagesPruneCall(store, fk, bad))

DeleteUnusedImages ==
  \E fk \in {"none", "GetImages", "Containers"}, fid \in AllIDs, bad \in SUBSET AllIDs :
    Done("DeleteUnusedImages", NoStr, NoStr, FALSE, DeleteUnusedImagesCall(store, fk, fid, bad))

\* the record of a PullImage call
PullCall(name, creds, o) ==
  [op |-> "PullImage", name |-> name, tag |-> NoStr, force |-> FALSE, pre |-> store,
   reply |-> o.reply, creds |-> creds, transport |-> o.transport]

PullImage ==
  \E name \in PullNames, creds \in CredInputs, fails \in BOOLEAN :
    LET o == PullImageCall(store, name, creds, fails) IN
    /\ store' = o.store
    /\ last' = PullCall(name, creds, o)
    /\ UNCHANGED <<bvars, run>>

\* the record of an ImageExists call
ExistsCall(name, fails, o) ==
  [op |-> "ImageExists", name |-> name, tag |-> NoStr, force |-> FALSE, pre |-> store,
   reply |-> o.reply, fails |-> fails]

ImageExists ==
  \E name \in NameInputs, fails \in BOOLEAN :
    LET o == ImageExistsCall(store, name, fails) IN
    /\ store' = o.store
    /\ last' = ExistsCall(name, fails, o)
    /\ UNCHANGED <<bvars, run>>

HistoryImage ==
  \E name \in NameInputs, fails \in BOOLEAN :
    Done("HistoryImage", name, NoStr, FALSE, HistoryImageCall(store, name, fails))

\* the record of a call that may push
PushRecord(op, name, format, o) ==
  [op |-> op, name |-> name, tag |-> NoStr, force |-> FALSE, pre |-> store,
   reply |-> o.reply, format |-> format, pushed |-> o.pushed]

ExportImage ==
  \E name \in NameInputs, tagsok \in BOOLEAN, fails \in BOOLEAN :
    LET o == ExportImageCall(store, name, tagsok, fails) IN
    /\ store' = o.store
    /\ last' = PushRecord("ExportImage", name, NoStr, o)
    /\ UNCHANGED <<bvars, run>>

InspectImage ==
  \E name \in LookupNames, fk \in InspectFaults :
    Done("InspectImage", name, NoStr, FALSE, InspectImageCall(store, name, fk))

PushImage ==
  \E name \in LookupNames, format \in PushFormats, fk \in PushFaults :
    LET o == PushImageCall(store, name, format, fk) IN
    /\ store' = o.store
    /\ last' = PushRecord("PushImage", name, format, o)
    /\ UNCHANGED <<bvars, run>>

ContainerRunlabel ==
  \E outcome \in RunlabelOutcomes :
    Done("ContainerRunlabel", NoStr, NoStr, FALSE, ContainerRunlabelCall(store, outcome))

\* the record of a Commit call
CommitRecord(name, imageName, manifestType, o) ==
  [op |-> "Commit", name |-> name, tag |-> imageName, force |-> FALSE, pre |-> store,
   reply |-> o.reply, format |-> manifestType, invoked |-> o.invoked]

Commit ==
  \E name \in CtrInputs, imageName \in TagNames, manifestType \in CommitFormats,
     fails \in BOOLEAN :
    LET o == CommitCall(store, name, imageName, manifestType, fails) IN
    /\ store' = o.store
    /\ last' = CommitRecord(name, imageName, manifestType, o)
    /\ UNCHANGED <<bvars, run>>

\* a container is created from an image of the store
CreateContainer ==
  \E id \in store.images :
    /\ store.ctrs[id] < MaxCtrs
    /\ store' = [store EXCEPT !.ctrs[id] = @ + 1]
    /\ last' = NoCall
    /\ UNCHANGED <<bvars, run>>

\* a container is removed
RemoveContainer ==
  \E id \in store.images :
    /\ store.ctrs[id] > 0
    /\ store' = [store EXCEPT !.ctrs[id] = @ - 1]
    /\ last' = NoCall
    /\ UNCHANGED <<bvars, run>>

Next ==
  \/ ListImages
  \/ GetImage
  \/ TagImage
  \/ RemoveImage
  \/ ImagesPrune
  \/ DeleteUnusedImages
  \/ PullImage
  \/ ImageExists
  \/ HistoryImage
  \/ ExportImage
  \/ InspectImage
  \/ PushImage
  \/ ContainerRunlabel
  \/ Commit
  \/ CreateContainer
  \/ RemoveContainer

vars == <<store, last, config, hpc, tpc, berr, output, nwritten, log, replies, run>>

Spec == Init /\ [][Next]_vars

(***************************************************************************)
(* BuildImage (lines 110-277): the handler's poll loop and the background  *)
(* build task, step by step.                                               *)
(***************************************************************************)
Formats == {<<>>, Oci, Docker, OciX, Oc, V2s2}
MemInputs == {"", "1g", "lots"}
TagLists == {<<>>, <<TagP1>>, <<TagQ1, TagP1>>}
Configs ==
  [format : Formats, memory : MemInputs, memory_swap : MemInputs, tags : TagLists,
   more : BOOLEAN]

\* the ID of the image a successful build commits
BuiltID == IdA1
\* the store a build starts from: one older image holding a name
BuildStore0 == StoreAdd(EmptyStore, IdA2, <<TagP1>>)

\* the manifest type of the request (lines 149-160), "" when unrecognized
ManifestType_NoCheck(format) ==
  LET mt == IF format # <<>> THEN format ELSE Oci IN
  IF HasPrefix(mt, Docker) THEN "Dockerv2ImageManifest" ELSE "OCIv1ImageManifest"

ManifestType(format) ==
  LET mt == IF format # <<>> THEN format ELSE Oci IN
  IF HasPrefix(mt, Oci) THEN "OCIv1ImageManifest"
  ELSE IF HasPrefix(mt, Docker) THEN "Dockerv2ImageManifest"
  ELSE ""

\* units.RAMInBytes
RAMInBytesOk(m) == m # "lots"

BReply(logs, id, continues) ==
  [logs |-> logs, id |-> id, continues |-> continues, fault |-> FALSE, reason |-> ""]

BFault(reason) ==
  [logs |-> <<>>, id |-> NoStr, continues |-> FALSE, fault |-> TRUE, reason |-> reason]

\* call.Continues while the loop runs (lines 219-221)
Continues == config.more

\* the request is rejected before anything is started (lines 149-174)
Rejection(c) ==
  IF ManifestType(c.format) = "" THEN "unrecognized image type"
  ELSE IF c.memory # "" /\ ~RAMInBytesOk(c.memory) THEN "invalid size"
  ELSE IF c.memory_swap # "" /\ ~RAMInBytesOk(c.memory_swap) THEN "invalid size"
  ELSE ""

\* BuildImage up to the start of the loop (lines 110-225).  The Dockerfile
\* paths, the pull policy and the build options (lines 119-148, 176-217) only
\* feed runtime.Build; filepath.Abs and filepath.Rel are taken to succeed (the
\* service has a working directory).
BuildImageStart ==
  \E c \in Configs :
    /\ hpc = "idle"
    /\ config' = c
    /\ IF Rejection(c) # ""
       THEN /\ replies' = <<BFault(Rejection(c))>>
            /\ hpc' = "returned"
            /\ tpc' = tpc
       ELSE /\ replies' = replies
            /\ hpc' = "read"
            /\ tpc' = "building"
    /\ UNCHANGED <<store, last, run, berr, output, nwritten, log>>

\* runtime.Build reports one more line (ReportWriter, line 215)
BuildWrite ==
  /\ tpc = "building"
  /\ nwritten < MaxLines
  /\ nwritten' = nwritten + 1
  /\ output' = Append(output, nwritten + 1)
  /\ UNCHANGED <<store, last, run, config, hpc, tpc, berr, log, replies>>

\* runtime.Build returns (line 271): with the image committed under the
\* requested names, or with an error and no image
BuildReturn ==
  /\ tpc = "building"
  /\ tpc' = "send"
  /\ \/ berr' = "" /\ store' = StoreAdd(store, BuiltID, config.tags)
     \/ berr' = "build failed" /\ store' = store
  /\ UNCHANGED <<last, run, config, hpc, output, nwritten, log, replies>>

\* close(c) (line 273)
BuildClose ==
  /\ tpc = "sent"
  /\ tpc' = "closed"
  /\ UNCHANGED <<store, last, run, config, hpc, berr, output, nwritten, log, replies>>

\* output.ReadString('\n') (lines 227-231): a line, or io.EOF
BuildImageRead ==
  /\ hpc = "read"
  /\ IF output # <<>>
     THEN /\ log' = Append(log, Head(output))
          /\ output' = Tail(output)
          /\ hpc' = hpc
     ELSE /\ hpc' = "select"
          /\ UNCHANGED <<log, output>>
  /\ UNCHANGED <<store, last, run, config, tpc, berr, nwritten, replies>>

\* case err := <-c, taking the error for a success
BuildImageReceive_IgnoreErr ==
  /\ hpc = "select"
  /\ tpc = "send"
  /\ tpc' = "sent"
  /\ hpc' = "resolve"
  /\ UNCHANGED <<store, last, run, config, berr, output, nwritten, log, replies>>

\* case err := <-c (lines 233-237): the build task is waiting to send
BuildImageReceive ==
  /\ hpc = "select"
  /\ tpc = "send"
  /\ tpc' = "sent"
  /\ IF berr # ""
     THEN /\ replies' = Append(replies, BFault(berr))
          /\ hpc' = "returned"
     ELSE /\ replies' = replies
          /\ hpc' = "resolve"
  /\ UNCHANGED <<store, last, run, config, berr, output, nwritten, log>>

\* default (lines 238-247): nothing to receive yet
BuildImagePoll ==
  /\ hpc = "select"
  /\ tpc # "send"
  /\ hpc' = "read"
  /\ IF ~config.more
     THEN UNCHANGED <<replies, log>>
     ELSE /\ Len(replies) < MaxPartial
          /\ replies' = Append(replies, BReply(log, NoStr, Continues))
          /\ log' = <<>>
  /\ UNCHANGED <<store, last, run, config, tpc, berr, output, nwritten>>

\* after the loop (lines 256-265)
BuildImageFinish ==
  /\ hpc = "resolve"
  /\ IF config.tags = <<>>
     THEN \* config.Tags[0]: index out of range
          /\ hpc' = "panicked"
          /\ replies' = replies
     ELSE /\ hpc' = "returned"
          /\ LET id == NewFromLocal(store, config.tags[1]) IN
             replies' = Append(replies,
                          IF id = NoImage THEN BFault("no such image")
                          ELSE BReply(log, id, FALSE))
  /\ UNCHANGED <<store, last, run, config, tpc, berr, output, nwritten, log>>

InitBuild == store = BuildStore0 /\ last = NoCall /\ run = NoRun /\ BuildIdle

NextBuild ==
  \/ BuildImageStart
  \/ BuildWrite
  \/ BuildReturn
  \/ BuildClose
  \/ BuildImageRead
  \/ BuildImageReceive
  \/ BuildImagePoll
  \/ BuildImageFinish

SpecBuild == InitBuild /\ [][NextBuild]_vars

(***************************************************************************)
(* The build under fair scheduling: the build itself terminates            *)
(* (runtime.Build returns), the build task goes on to send and close, and  *)
(* the handler's goroutine keeps taking its steps.                         *)
(***************************************************************************)
HandlerStep == BuildImageRead \/ BuildImageReceive \/ BuildImagePoll \/ BuildImageFinish

SpecBuildFair ==
  /\ InitBuild
  /\ [][NextBuild]_vars
  /\ WF_vars(BuildReturn)
  /\ WF_vars(BuildClose)
  /\ WF_vars(HandlerStep)

(***************************************************************************)
(* The log buffer at the grain of one access.  output is a bytes.Buffer    *)
(* (line 176) that runtime.Build writes through ReportWriter (line 215) in *)
(* the build task while the handler calls ReadString on it (line 227);     *)
(* nothing orders the two.  tpc = "writing" is the task inside an append,  *)
(* hpc = "reading" the handler inside ReadString.  A ReadString that       *)
(* overlaps an append either misses the line or takes a fragment of it;    *)
(* the fragment comes with io.EOF and is dropped (line 231 onwards), and   *)
(* the rest of the line reaches the buffer as a line of its own.           *)
(***************************************************************************)
\* what is left of line k after a fragment of it was taken
Torn(k) == k + MaxLines

\* the build task enters the append of one more line
RaceWriteBegin ==
  /\ tpc = "building"
  /\ nwritten < MaxLines
  /\ tpc' = "writing"
  /\ UNCHANGED <<store, last, run, config, hpc, berr, output, nwritten, log, replies>>

\* the append ends
RaceWriteEnd ==
  /\ tpc \in {"writing", "torn"}
  /\ tpc' = "building"
  /\ nwritten' = nwritten + 1
  /\ output' = Append(output, IF tpc = "torn" THEN Torn(nwritten + 1) ELSE nwritten + 1)
  /\ UNCHANGED <<store, last, run, config, hpc, berr, log, replies>>

\* the handler enters output.ReadString('\n') (line 227)
RaceReadBegin ==
  /\ hpc = "read"
  /\ hpc' = "reading"
  /\ UNCHANGED <<store, last, run, config, tpc, berr, output, nwritten, log, replies>>

\* ReadString returns (lines 227-231): a line, io.EOF, or, overlapping an
\* append, io.EOF with a fragment of the line being appended
RaceReadEnd ==
  /\ hpc = "reading"
  /\ \/ /\ output # <<>>
        /\ log' = Append(log, Head(output))
        /\ output' = Tail(output)
        /\ hpc' = "read"
        /\ tpc' = tpc
     \/ /\ output = <<>>
        /\ hpc' = "select"
        /\ tpc' \in IF tpc = "writing" THEN {"writing", "torn"} ELSE {tpc}
        /\ UNCHANGED <<log, output>>
  /\ UNCHANGED <<store, last, run, config, berr, nwritten, replies>>

NextRace ==
  \/ BuildImageStart
  \/ RaceWriteBegin
  \/ RaceWriteEnd
  \/ BuildReturn
  \/ BuildClose
  \/ RaceReadBegin
  \/ RaceReadEnd
  \/ BuildImageReceive
  \/ BuildImagePoll
  \/ BuildImageFinish

SpecBuildRace == InitBuild /\ [][NextRace]_vars

(***************************************************************************)
(* SearchImage (lines 410-440): the configured registries queried in turn. *)
(***************************************************************************)
MaxRegs == 3
RegNames == {"r1", "r2"}
\* sysreg.GetRegistries: the registries of the configuration file, in order
RegistryLists == UNION {[1..k -> RegNames] : k \in 0..MaxRegs}
SearchTerms == {<<"p">>}
LimitInputs == {1, 2}

\* what a registry holds for a term: r1 two images, r2 one
RegistryHits(reg, term) ==
  IF reg = "r1" THEN <<[name |-> <<reg>> \o term, stars |-> 2],
                       [name |-> <<reg>> \o term \o <<"x">>, stars |-> 1]>>
  ELSE <<[name |-> <<reg>> \o term, stars |-> 0]>>

\* docker.SearchRegistry when it succeeds: at most limit results
SearchRegistry(reg, term, limit) ==
  LET hits == RegistryHits(reg, term) IN
  SubSeq(hits, 1, IF limit < Len(hits) THEN limit ELSE Len(hits))

\* iopodman.ImageSearch of the results (lines 428-437)
ImageSearch(results) ==
  [k \in 1..Len(results) |-> [name |-> results[k].name, star_count |-> results[k].stars]]

\* the outcome of a search: the reply and the registries queried, in order
SearchOut(r, queried) == [reply |-> r, queried |-> queried]

\* the loop over the registries (lines 417-438); n: len(registries), k: the
\* position of Head(todo) in the list, failing: the positions whose query fails
RECURSIVE SearchLoop(_, _, _, _, _, _, _, _)
SearchLoop(n, todo, k, results, queried, failing, term, limit) ==
  IF todo = <<>> THEN SearchOut(Reply("SearchImage", NoStr, <<>>, results), queried)
  ELSE IF k \in failing
       THEN IF n > 1
            THEN SearchLoop(n, Tail(todo), k + 1, results, Append(queried, Head(todo)),
                            failing, term, limit)
            ELSE SearchOut(Fault("ErrorOccurred", Head(todo)), Append(queried, Head(todo)))
  ELSE SearchLoop(n, Tail(todo), k + 1,
                  results \o ImageSearch(SearchRegistry(Head(todo), term, limit)),
                  Append(queried, Head(todo)), failing, term, limit)

\* SearchImage for which the failure of a registry is always fatal
SearchImageCall_AlwaysFatal(regs, failing, getfail, term, limit) ==
  IF getfail THEN SearchOut(Fault("ErrorOccurred", "unable to get system registries"), <<>>)
  ELSE SearchLoop(1, regs, 1, <<>>, <<>>, failing, term, limit)

\* SearchImage that gives up quietly at the first registry that fails
SearchImageCall_StopAtFailure(regs, failing, getfail, term, limit) ==
  IF getfail THEN SearchOut(Fault("ErrorOccurred", "unable to get system registries"), <<>>)
  ELSE IF Len(regs) > 1 /\ failing # {}
       THEN LET f == CHOOSE i \in failing : \A j \in failing : i <= j IN
            SearchLoop(Len(regs), SubSeq(regs, 1, f), 1, <<>>, <<>>, failing, term, limit)
  ELSE SearchLoop(Len(regs), regs, 1, <<>>, <<>>, failing, term, limit)

\* SearchImage (lines 410-440); getfail: GetRegistries reports an error
SearchImageCall(regs, failing, getfail, term, limit) ==
  IF getfail THEN SearchOut(Fault("ErrorOccurred", "unable to get system registries"), <<>>)
  ELSE SearchLoop(Len(regs), regs, 1, <<>>, <<>>, failing, term, limit)

\* the record of a SearchImage call
SearchCall(regs, failing, getfail, term, limit, o) ==
  [op |-> "SearchImage", name |-> term, tag |-> NoStr, force |-> FALSE, pre |-> store,
   reply |-> o.reply, regs |-> regs, failing |-> failing, getfail |-> getfail,
   limit |-> limit, queried |-> o.queried]

SearchImage ==
  \E regs \in RegistryLists, getfail \in BOOLEAN, term \in SearchTerms, limit \in LimitInputs :
    \E failing \in SUBSET (1..Len(regs)) :
      /\ getfail => (regs = <<>> /\ failing = {})
      /\ last' = SearchCall(regs, failing, getfail, term, limit,
                            SearchImageCall(regs, failing, getfail, term, limit))
      /\ UNCHANGED <<store, run, config, hpc, tpc, berr, output, nwritten, log, replies>>

NextSearch == SearchImage

SpecSearch == Init /\ [][NextSearch]_vars

(***************************************************************************)
(* ImportImage (lines 503-520).                                            *)
(***************************************************************************)
MaxChanges == 2
Messages == {"", "hello"}
Directives == {"CMD /bin/sh", "bogus"}
ChangeLists == UNION {[1..k -> Directives] : k \in 0..MaxChanges}
Sources == {"x.tar", "missing.tar"}

\* util.GetImageConfig: the directives it accepts, and the configuration it makes
ChangesOk(changes) == "bogus" \notin Range(changes)
GetImageConfig(changes) == [Cmd |-> changes]

\* the ID of the image an import of the tarball creates
ImportID == IdA1
\* nothing was handed to the store
NoImport == [Config |-> [Cmd |-> <<>>], History |-> <<>>]

\* the outcome of an import: the store, the reply and the image configuration
\* that Runtime.Import was called with
ImportOut(s, r, imported) == [store |-> s, reply |-> r, imported |-> imported]

\* ImportImage that leaves the message out of the history
ImportImageCall_NoComment(s, source, reference, message, changes) ==
  IF ~ChangesOk(changes) THEN ImportOut(s, Fault("ErrorOccurred", "GetImageConfig"), NoImport)
  ELSE LET cfg == [Config |-> GetImageConfig(changes), History |-> <<[Comment |-> ""]>>] IN
       IF source = "missing.tar" THEN ImportOut(s, Fault("ErrorOccurred", "Import"), cfg)
       ELSE ImportOut(StoreAdd(s, ImportID, <<reference>>),
                      Reply("ImportImage", ImportID, <<>>, <<>>), cfg)

\* ImportImage (lines 503-520); the import of a missing tarball fails
ImportImageCall(s, source, reference, message, changes) ==
  IF ~ChangesOk(changes) THEN ImportOut(s, Fault("ErrorOccurred", "GetImageConfig"), NoImport)
  ELSE LET cfg == [Config |-> GetImageConfig(changes), History |-> <<[Comment |-> message]>>] IN
       IF source = "missing.tar" THEN ImportOut(s, Fault("ErrorOccurred", "Import"), cfg)
       ELSE ImportOut(StoreAdd(s, ImportID, <<reference>>),
                      Reply("ImportImage", ImportID, <<>>, <<>>), cfg)

\* the record of an ImportImage call
ImportCall(source, reference, message, changes, o) ==
  [op |-> "ImportImage", name |-> reference, tag |-> NoStr, force |-> FALSE, pre |-> store,
   reply |-> o.reply, source |-> source, message |-> message, changes |-> changes,
   imported |-> o.imported]

ImportImage ==
  \E source \in Sources, reference \in TagNames, message \in Messages, changes \in ChangeLists :
    LET o == ImportImageCall(store, source, reference, message, changes) IN
    /\ store' = o.store
    /\ last' = ImportCall(source, reference, message, changes, o)
    /\ UNCHANGED <<bvars, run>>

NextImport == ImportImage

SpecImport == Init /\ [][NextImport]_vars

(***************************************************************************)
(* Calls served next to each other.  The gateway serves every connection   *)
(* on its own, so the engine calls of one handler interleave with other    *)
(* calls; each engine call is atomic (spec, section 5).  run holds the     *)
(* call that is followed step by step: its snapshot still to visit (todo), *)
(* its result so far (acc), the container count it read (cur), the store   *)
(* states that existed since it began (hist), the images it removed while  *)
(* a container referenced them (inuse).                                    *)
(***************************************************************************)
MaxMuts == 2

\* the store the calls meet: two images, the first one tagged
ConcStore0 == StoreAdd(StoreAdd(EmptyStore, IdA1, <<TagP1>>), IdA2, <<>>)
ConcNames == {IdA1, TagP1, Ghost}

Busy == run.pc \notin {"idle", "done"}
Finish(r) == [run EXCEPT !.pc = "done", !.reply = r]
Gone(id) == id \notin store.images

\* another call changes the store
Mutated(s2) ==
  /\ run.muts < MaxMuts
  /\ s2 # store
  /\ store' = s2
  /\ run' = [run EXCEPT !.muts = @ + 1, !.hist = IF Busy THEN @ \cup {s2} ELSE @]
  /\ UNCHANGED <<last, bvars>>

ConcCreateContainer ==
  \E id \in store.images :
    /\ store.ctrs[id] < MaxCtrs
    /\ Mutated([store EXCEPT !.ctrs[id] = @ + 1])

ConcRemoveContainer ==
  \E id \in store.images :
    /\ store.ctrs[id] > 0
    /\ Mutated([store EXCEPT !.ctrs[id] = @ - 1])

ConcTagImage ==
  \E name \in AllIDs, tag \in TagNames :
    LET o == TagImageCall(store, name, tag, FALSE) IN
    /\ ~o.reply.fault
    /\ Mutated(o.store)

ConcRemoveImage ==
  \E name \in AllIDs, force \in BOOLEAN :
    LET o == RemoveImageCall(store, name, force, FALSE) IN
    /\ ~o.reply.fault
    /\ Mutated(o.store)

\* a call begins: its first engine call
Begin(op, pc, todo) ==
  /\ run.pc = "idle"
  /\ run' = [run EXCEPT !.op = op, !.pc = pc, !.todo = todo, !.hist = {store}]
  /\ UNCHANGED <<store, last, bvars>>

\* a step of the call that leaves the store alone
Step(op, pc, r) ==
  /\ run.op = op
  /\ run.pc = pc
  /\ run' = r
  /\ UNCHANGED <<store, last, bvars>>

\* ListImages: GetImages (line 36)
ListStart == Begin("ListImages", "containers", GetImages(store))

\* ListImages: Labels and Containers of the next image, errors ignored (lines 41-43)
ListReadContainers ==
  Step("ListImages", "containers",
       IF run.todo = <<>> THEN Finish(Reply("ListImages", NoStr, <<>>, run.acc))
       ELSE [run EXCEPT !.pc = "summary",
                        !.cur = IF Gone(Head(run.todo)) THEN 0
                                ELSE Containers(store, Head(run.todo))])

\* ListImages: RepoDigests, Size, IsParent, Names and the summary (lines 44-67)
ListSummary ==
  Step("ListImages", "summary",
       IF Gone(Head(run.todo)) THEN Finish(NoReply("RepoDigests"))
       ELSE [run EXCEPT !.pc = "containers",
                        !.todo = Tail(@),
                        !.acc = Append(@, [Id |-> Head(run.todo),
                                           RepoTags |-> Names(store, Head(run.todo)),
                                           Containers |-> run.cur])])

\* GetImage: NewFromLocal (lines 74-77)
GetStart ==
  \E name \in ConcNames :
    /\ run.pc = "idle"
    /\ run' = IF NewFromLocal(store, name) = NoImage
              THEN [run EXCEPT !.op = "GetImage", !.pc = "done", !.hist = {store},
                               !.reply = Fault("ImageNotFound", "no such image")]
              ELSE [run EXCEPT !.op = "GetImage", !.pc = "containers", !.hist = {store},
                               !.todo = <<NewFromLocal(store, name)>>]
    /\ UNCHANGED <<store, last, bvars>>

\* GetImage: Labels and Containers (lines 78-85)
GetReadContainers ==
  Step("GetImage", "containers",
       IF Gone(Head(run.todo)) THEN Finish(NoReply("Containers"))
       ELSE [run EXCEPT !.pc = "summary", !.cur = Containers(store, Head(run.todo))])

\* GetImage: RepoDigests, Size, Names and the summary (lines 86-106)
GetSummary ==
  Step("GetImage", "summary",
       IF Gone(Head(run.todo)) THEN Finish(NoReply("RepoDigests"))
       ELSE Finish(Reply("GetImage", Head(run.todo), <<>>,
                         <<[Id |-> Head(run.todo),
                            RepoTags |-> Names(store, Head(run.todo)),
                            Containers |-> run.cur]>>)))

\* DeleteUnusedImages: GetImages (line 445)
DeleteStart == Begin("DeleteUnusedImages", "containers", GetImages(store))

\* DeleteUnusedImages: Containers of the next image (lines 450-455)
DeleteCheck ==
  Step("DeleteUnusedImages", "containers",
       IF run.todo = <<>> THEN Finish(Reply("DeleteUnusedImages", NoStr, run.acc, <<>>))
       ELSE IF Gone(Head(run.todo)) THEN Finish(Fault("ErrorOccurred", "Containers"))
       ELSE IF Containers(store, Head(run.todo)) = 0 THEN [run EXCEPT !.pc = "remove"]
       ELSE [run EXCEPT !.todo = Tail(@)])

\* img.Remove with the removal forced
DeleteRemoval_Forced(s, id) == ImageRemove(s, id, TRUE, FALSE)

\* img.Remove(false) (line 456)
DeleteRemoval(s, id) == ImageRemove(s, id, FALSE, FALSE)

\* the call removes the image at the head of its list, or ends with the error
Removal(op, r) ==
  /\ run.op = op
  /\ run.pc = "remove"
  /\ run.todo # <<>>
  /\ IF Gone(Head(run.todo))
     THEN run' = Finish(Fault("ErrorOccurred", "no such image")) /\ store' = store
     ELSE IF r.err # ""
     THEN run' = Finish(Fault("ErrorOccurred", r.err)) /\ store' = store
     ELSE /\ store' = r.store
          /\ run' = [run EXCEPT !.pc = IF op = "ImagesPrune" THEN "remove" ELSE "containers",
                                !.todo = Tail(@),
                                !.acc = Append(@, Head(run.todo)),
                                !.hist = @ \cup {r.store},
                                !.inuse = IF Containers(store, Head(run.todo)) > 0
                                          THEN @ \cup {Head(run.todo)} ELSE @]
  /\ UNCHANGED <<last, bvars>>

\* DeleteUnusedImages: Remove and append (lines 456-459)
DeleteRemove == Removal("DeleteUnusedImages", DeleteRemoval(store, Head(run.todo)))

\* ImagesPrune: GetPruneImages (line 634)
PruneStart == Begin("ImagesPrune", "remove", GetPruneImages(store))

\* ImagesPrune: the reply after the last member of the prune set (line 644)
PruneReply ==
  /\ run.todo = <<>>
  /\ Step("ImagesPrune", "remove", Finish(Reply("ImagesPrune", NoStr, run.acc, <<>>)))

\* ImagesPrune: Remove(true) and append (lines 638-643)
PruneRemove == Removal("ImagesPrune", ImageRemove(store, Head(run.todo), TRUE, FALSE))

InitConc == store = ConcStore0 /\ last = NoCall /\ run = NoRun /\ BuildIdle

NextConc ==
  \/ ConcCreateContainer
  \/ ConcRemoveContainer
  \/ ConcTagImage
  \/ ConcRemoveImage
  \/ ListStart
  \/ ListReadContainers
  \/ ListSummary
  \/ GetStart
  \/ GetReadContainers
  \/ GetSummary
  \/ DeleteStart
  \/ DeleteCheck
  \/ DeleteRemove
  \/ PruneStart
  \/ PruneReply
  \/ PruneRemove

SpecConc == InitConc /\ [][NextConc]_vars

(***************************************************************************)
(* Properties of the store handlers (checked under Spec).                  *)
(***************************************************************************)
Failed(r) == r.fault \/ r.kind = "NoReply"

\* the image the last call's name resolved to when the call was made
Resolved == NewFromLocal(last.pre, last.name)

C2_RemoveDeletesEntryAndTags ==
  (last.op = "RemoveImage" /\ last.reply.kind = "RemoveImage")
  => /\ Resolved \in last.pre.images
     /\ last.reply.id = Resolved
     /\ Resolved \notin store.images
     /\ \A n \in {Resolved} \cup Range(Names(last.pre, Resolved)) :
          GetImageCall(store, n, "none").reply.kind = "ImageNotFound"

C2_Witness ==
  /\ last.op = "RemoveImage"
  /\ last.reply.kind = "RemoveImage"
  /\ Len(Names(last.pre, Resolved)) = 2
  /\ last.name \in Range(Names(last.pre, Resolved))
  /\ GetImageCall(store, last.name, "none").reply.kind = "ImageNotFound"

\* C3: after a successful TagImage(I, n), GetImage(n) answers I and the reply
\* of TagImage is I's ID; n occurs once in the names of I, and tagging again
\* gives the same store and the same reply.
C3_TagThenGet ==
  (last.op = "TagImage" /\ last.reply.kind = "TagImage")
  => /\ Resolved \in last.pre.images
     /\ last.reply.id = Resolved
     /\ store.images = last.pre.images
     /\ GetImageCall(store, last.tag, "none").reply.kind = "GetImage"
     /\ GetImageCall(store, last.tag, "none").reply.id = Resolved
     /\ Occurrences(Names(store, Resolved), last.tag) = 1
     /\ TagImageCall(store, last.name, last.tag, FALSE) = Out(store, last.reply)

C3_Witness ==
  /\ last.op = "TagImage"
  /\ last.reply.kind = "TagImage"
  /\ Names(last.pre, Resolved) # <<>>
  /\ last.tag \notin Range(Names(last.pre, Resolved))
  /\ \E i \in last.pre.images : i # Resolved /\ last.tag \in Range(Names(last.pre, i))
  /\ GetImageCall(store, last.tag, "none").reply.id = Resolved

\* the images without a referencing container when the last call was made
UnusedBefore == {i \in last.pre.images : Containers(last.pre, i) = 0}

\* C4: an ImagesPrune that completes removes exactly the images that had no
\* referencing container: the reply lists them, they are gone, and every image
\* in use is still there with its tags.
C4_PruneExactlyUnused ==
  (last.op = "ImagesPrune" /\ last.reply.kind = "ImagesPrune")
  => /\ Range(last.reply.ids) = UnusedBefore
     /\ NoDup(last.reply.ids)
     /\ store.images = last.pre.images \ UnusedBefore
     /\ \A i \in last.pre.images \ UnusedBefore :
          /\ Names(store, i) = Names(last.pre, i)
          /\ Containers(store, i) = Containers(last.pre, i)

C4_Witness ==
  /\ last.op = "ImagesPrune"
  /\ last.reply.kind = "ImagesPrune"
  /\ last.reply.ids # <<>>
  /\ \E i \in store.images : Containers(last.pre, i) > 0 /\ Names(store, i) # <<>>

\* the members of the prune set the last call removed, in order
RemovedByCall == SelectSeq(GetImages(last.pre), LAMBDA i : i \notin store.images)

\* C5: an ImagesPrune that fails at a removal stops there, and its outcome
\* carries the error together with the IDs of the images removed before it.
C5_PruneFailureReportsRemoved ==
  (last.op = "ImagesPrune" /\ last.reply.fault)
  => /\ \E k \in 0..Len(GetPruneImages(last.pre)) :
          RemovedByCall = SubSeq(GetPruneImages(last.pre), 1, k)
     /\ last.reply.ids = RemovedByCall

Started == hpc # "idle"
Ended == hpc \in {"returned", "panicked"}
\* the lines the build has written so far, in order
Written == [k \in 1..nwritten |-> k]
NothingBuilt ==
  /\ tpc = "none"
  /\ nwritten = 0
  /\ output = <<>>
  /\ log = <<>>
  /\ store = BuildStore0
OnlyAFault ==
  /\ hpc = "returned"
  /\ Len(replies) = 1
  /\ replies[1].fault
  /\ replies[1].logs = <<>>
  /\ replies[1].id = NoStr

\* the format the request asks for, the empty value standing for "oci"
Asked == IF config.format = <<>> THEN Oci ELSE config.format

C8_OneReplyWithoutStreaming ==
  (Started /\ ~config.more)
  => /\ ~Ended => replies = <<>>
     /\ Ended => /\ Len(replies) = 1
                 /\ replies[1].fault
                    \/ /\ replies[1].id = BuiltID
                       /\ replies[1].logs = Written
                       /\ ~replies[1].continues

\* C9: with streaming, the replies are partial replies marked as continuing,
\* each carrying the lines read since the one before, then exactly one terminal
\* reply not marked as continuing, and nothing after it; without streaming no
\* reply is marked as continuing.
C9_PartialsThenOneTerminal ==
  /\ (Started /\ ~config.more) => \A k \in 1..Len(replies) : ~replies[k].continues
  /\ (Started /\ config.more)
     => /\ \A k \in 1..Len(replies) :
             k < Len(replies) => /\ replies[k].continues
                                 /\ ~replies[k].fault
                                 /\ replies[k].id = NoStr
        /\ Ended => /\ replies # <<>>
                    /\ ~replies[Len(replies)].continues
        /\ ~Ended => \A k \in 1..Len(replies) : replies[k].continues

\* C10: once the completion signal has carried an error, the last reply is the
\* fault with that error and the handler has returned; no reply of a call
\* whose build failed carries an image ID, and the failed build leaves no image.
C10_BuildErrorIsTerminalFault ==
  (berr # "")
  => /\ \A k \in 1..Len(replies) : replies[k].id = NoStr
     /\ store = BuildStore0
     /\ tpc \in {"sent", "closed"}
        => /\ hpc = "returned"
           /\ replies # <<>>
           /\ replies[Len(replies)] = BFault(berr)
           /\ \A k \in 1..Len(replies) - 1 : ~replies[k].fault /\ replies[k].continues

C10_Witness ==
  /\ berr # ""
  /\ tpc = "closed"
  /\ config.more
  /\ Len(replies) = 2
  /\ replies[1].logs # <<>>
  /\ replies[2].fault

\* the build task has signalled success and the handler has received it
Succeeded == berr = "" /\ tpc \in {"sent", "closed"}

\* C11: a build that completes with success, whatever its list of requested
\* tag names, ends with one terminal reply, not a fault and not marked as
\* continuing, that carries the ID of the new image; every reply before it is
\* a partial reply.
C11_SuccessRepliesImageID ==
  (Succeeded /\ hpc # "resolve")
  => /\ hpc = "returned"
     /\ replies # <<>>
     /\ ~replies[Len(replies)].fault
     /\ ~replies[Len(replies)].continues
     /\ replies[Len(replies)].id = BuiltID
     /\ \A k \in 1..Len(replies) - 1 : replies[k].continues /\ replies[k].id = NoStr

\* the log batches of a sequence of replies, concatenated in emission order
RECURSIVE AllLogs(_)
AllLogs(rs) == IF rs = <<>> THEN <<>> ELSE Head(rs).logs \o AllLogs(Tail(rs))

\* the call has returned its terminal reply for a successful build
Completed ==
  /\ Succeeded
  /\ hpc = "returned"
  /\ replies # <<>>
  /\ ~replies[Len(replies)].fault

\* C12: for a successful build the log batches of the replies, concatenated,
\* are the same with and without streaming under every interleaving of the
\* build task and the poll loop: in either mode they are the sequence of lines
\* the build wrote (what a run that drains every line before the signal returns).
C12_StreamingLogEqualsSingleLog ==
  Completed => AllLogs(replies) = Written

\* C23: for a successful build the log batches of all the replies,
\* concatenated, are exactly the lines appended before the completion signal:
\* none lost, repeated or out of order, and none left in the buffer, the lines
\* appended between the last read and the signal included.
C23_RepliesCarryEveryLine ==
  /\ HasPrefix(Written, AllLogs(replies))
  /\ Completed => (output = <<>> /\ Len(AllLogs(replies)) = nwritten)

\* the lines the handler has taken from the buffer so far
Taken == AllLogs(replies) \o log

\* C24: the log buffer is never read while the build task appends to it: at
\* most one of the task (appending) and the handler (reading) is inside a
\* buffer access at a time, and the handler only ever sees lines that were
\* appended whole.
C24_BufferAccessExclusive ==
  /\ ~(hpc = "reading" /\ tpc \in {"writing", "torn"})
  /\ \A k \in 1..Len(Taken) : Taken[k] <= MaxLines

\* the build task has delivered its result
Delivered == tpc \in {"sent", "closed"}

\* C25: the poll loop runs until the completion signal and no longer: no
\* terminal reply or fault of a started build is sent before the build task
\* delivered its result; and, the build terminating and the scheduling fair,
\* the task always delivers its result and ends, and the handler always sends
\* its terminal reply or fault and returns.
C25_LoopEndsWithTheSignal ==
  /\ []((Ended /\ tpc # "none") => Delivered)
  /\ (tpc = "building") ~> (tpc = "closed")
  /\ (tpc = "building") ~> (hpc = "returned")

(***************************************************************************)
(* Properties of SearchImage (checked under SpecSearch).                   *)
(***************************************************************************)
Searched == last.op = "SearchImage" /\ ~last.getfail

\* the results of the registries from position k on whose query succeeded
RECURSIVE ResultsFrom(_)
ResultsFrom(k) ==
  IF k > Len(last.regs) THEN <<>>
  ELSE (IF k \in last.failing THEN <<>>
        ELSE ImageSearch(SearchRegistry(last.regs[k], last.name, last.limit)))
       \o ResultsFrom(k + 1)

\* C13: with two or more registries configured of which exactly one errors,
\* SearchImage replies the results of the others and no fault; with a single
\* registry configured that errors, SearchImage fails with that error.
C13_OneFailureAbsorbedUnlessAlone ==
  Searched
  => /\ (Len(last.regs) >= 2 /\ Cardinality(last.failing) = 1)
        => /\ last.reply.kind = "SearchImage"
           /\ ~last.reply.fault
           /\ last.reply.list = ResultsFrom(1)
     /\ (Len(last.regs) = 1 /\ last.failing = {1})
        => /\ last.reply.fault
           /\ last.reply.kind = "ErrorOccurred"
           /\ last.reply.reason = last.regs[1]

C13_Witness ==
  /\ Searched
  /\ Len(last.regs) = 3
  /\ last.failing = {2}
  /\ last.regs[1] # last.regs[3]
  /\ Len(last.reply.list) = 3
  /\ ~last.reply.fault

\* C14: with two or more registries configured, whatever subset of them fails,
\* SearchImage queries every registry once in the configured order, replies no
\* fault, and its result is the concatenation, in registry order, of the
\* results of the registries that succeeded (empty when all of them fail).
C14_ResultsOfSuccessfulInOrder ==
  (Searched /\ Len(last.regs) >= 2)
  => /\ last.queried = last.regs
     /\ last.reply.kind = "SearchImage"
     /\ ~last.reply.fault
     /\ last.reply.list = ResultsFrom(1)
     /\ last.failing = 1..Len(last.regs) => last.reply.list = <<>>

C14_Witness ==
  /\ Searched
  /\ Len(last.regs) = 3
  /\ last.failing = {1, 3}
  /\ last.regs[1] = "r1"
  /\ last.reply.list # <<>>
  /\ last.reply.kind = "SearchImage"

(***************************************************************************)
(* Properties of the other handlers (checked under Spec).                  *)
(***************************************************************************)
\* the faults the handlers reply
FaultKinds == {"ErrorOccurred", "ImageNotFound", "ContainerNotFound"}

\* the handler returned an error of the engine as it was, without a reply
ReturnedBareError(r) == r.kind = "NoReply" /\ r.reason # ""

\* C15: an error of the engine inside a handler reaches the caller as one fault
\* reply of the fixed set of faults; no handler returns the internal error
\* itself without sending a fault reply.
C15_EngineErrorsBecomeFaults ==
  (last.op # "none")
  => /\ ~ReturnedBareError(last.reply)
     /\ last.reply.fault => last.reply.kind \in FaultKinds

\* C16: every call of a method other than BuildImage gets exactly one terminal
\* reply, a result or a fault, on every path through its handler.
C16_OneTerminalReply ==
  (last.op # "none")
  => /\ last.reply.kind # "NoReply"
     /\ last.reply.fault \/ last.reply.kind = last.op

\* the name begins with the archive scheme and its colon
NamesAnArchive(name) ==
  /\ Len(name) > Len(ArchiveScheme)
  /\ SubSeq(name, 1, Len(ArchiveScheme)) = ArchiveScheme
  /\ name[Len(ArchiveScheme) + 1] = ":"

\* C17: PullImage of a name that begins with the archive scheme and its colon
\* goes to the archive: the registry is never asked, and the reply is the ID
\* of the image loaded from the archive; any other name, one that begins with
\* the scheme's letters without the colon included, is pulled from the registry.
C17_ArchiveNamesLoadFromArchive ==
  (last.op = "PullImage")
  => /\ NamesAnArchive(last.name)
        => /\ last.transport # "registry"
           /\ last.reply.kind = "PullImage"
              => /\ last.transport = "archive"
                 /\ last.reply.id = ArchiveImage(last.name).id
                 /\ last.reply.id \in store.images
     /\ ~NamesAnArchive(last.name)
        => /\ last.transport # "archive"
           /\ (last.creds = "" \/ ParseRegistryCredsOk(last.creds))
              => last.transport = "registry"
           /\ last.reply.kind = "PullImage" => last.reply.id = RegistryImage(last.name)

C17_Witness ==
  /\ last.op = "PullImage"
  /\ last.name = ArchiveT
  /\ last.transport = "archive"
  /\ last.reply.kind = "PullImage"
  /\ last.reply.id \notin last.pre.images
  /\ last.reply.id \in store.images

\* C18: a Commit whose format is none of "oci", "docker" and the empty value
\* fails with a fault before the commit: ctr.Commit is not invoked and the
\* store is as it was, no image created.
C18_UnsupportedCommitFormatRejected ==
  (last.op = "Commit" /\ last.format \notin {Oci, Docker, <<>>})
  => /\ last.reply.fault
     /\ ~last.invoked
     /\ store = last.pre

C18_Witness ==
  /\ last.op = "Commit"
  /\ last.format = OciX
  /\ LookupContainer(last.pre, last.name)
  /\ CommitID(last.name) \notin last.pre.images
  /\ last.reply.reason = "unrecognized image format"
  /\ ~last.invoked
  /\ store = last.pre

\* C19: ImageExists never leaves the store changed, and unless the lookup
\* itself breaks down it sends a normal reply: one saying the image does not
\* exist (1) for a name that resolves to no image, one saying it exists (0) for
\* a name that resolves.
C19_AbsenceIsNotAnError ==
  (last.op = "ImageExists")
  => /\ store = last.pre
     /\ ~last.fails
        => /\ ~last.reply.fault
           /\ last.reply.kind = "ImageExists"
           /\ last.reply.list = <<IF Resolved = NoImage THEN 1 ELSE 0>>

C19_Witness ==
  /\ last.op = "ImageExists"
  /\ ~last.fails
  /\ last.pre.images # {}
  /\ Resolved = NoImage
  /\ last.reply.kind = "ImageExists"
  /\ last.reply.list = <<1>>

\* C20: the entries of a HistoryImage reply are the image's layers in build
\* order, the final entry carries the image's tag names and every other entry
\* carries none.
C20_OnlyFinalEntryTagged ==
  (last.op = "HistoryImage" /\ last.reply.kind = "HistoryImage")
  => LET h == last.reply.list IN
     /\ [k \in 1..Len(h) |-> h[k].id] = History(Resolved)
     /\ h[Len(h)].tags = Names(last.pre, Resolved)
     /\ \A k \in 1..Len(h) - 1 : h[k].tags = <<>>

\* the handlers that begin by looking up the image their name argument names
LookupFirst ==
  {"GetImage", "InspectImage", "HistoryImage", "TagImage", "RemoveImage", "PushImage",
   "ExportImage"}

\* C28: GetImage, InspectImage, HistoryImage, TagImage, RemoveImage, PushImage
\* and ExportImage called with a name that resolves to no image reply the
\* ImageNotFound fault, leave the store as it was (no tag added, nothing
\* removed) and push nothing, whatever their other arguments are, a format
\* that is not supported included.
C28_UnknownNameIsNotFound ==
  (last.op \in LookupFirst /\ Resolved = NoImage)
  => /\ last.reply = Fault("ImageNotFound", "no such image")
     /\ store = last.pre
     /\ last.op \in {"PushImage", "ExportImage"} => ~last.pushed

\* PushImage of an unknown name with a format that is not supported, on a
\* store that holds an image
C28_Witness ==
  /\ last.op = "PushImage"
  /\ Resolved = NoImage
  /\ ~PushFormatKnown(last.format)
  /\ last.pre.images # {}
  /\ last.reply.kind = "ImageNotFound"

\* C29: ListImages replies one summary per image even when the store cannot
\* compute the size, the labels or the container list of an image (the value
\* is then absent) and does not crash; when the backing store cannot be read
\* it replies a fault.
C29_ListSurvivesMissingValues ==
  (last.op = "ListImages")
  => /\ last.fk \in {"none", "Size", "Labels", "Containers"}
        => /\ last.reply.kind = "ListImages"
           /\ [k \in 1..Len(last.reply.list) |-> last.reply.list[k].Id] = GetImages(last.pre)
     /\ last.fk = "GetImages"
        => last.reply = Fault("ErrorOccurred", "unable to get list of images")

(***************************************************************************)
(* Properties of ImportImage (checked under SpecImport).                   *)
(***************************************************************************)
\* C21: ImportImage hands the store an image configuration whose history has
\* exactly one entry with the message as its Comment, whatever the message and
\* the change directives; when the directives cannot be parsed it fails with a
\* fault, nothing is handed to the store and nothing is imported.
C21_ImportHistoryIsTheMessage ==
  (last.op = "ImportImage")
  => /\ ChangesOk(last.changes)
        => /\ Len(last.imported.History) = 1
           /\ last.imported.History[1].Comment = last.message
           /\ last.imported.Config = GetImageConfig(last.changes)
     /\ ~ChangesOk(last.changes)
        => /\ last.reply.fault
           /\ last.imported = NoImport
           /\ store = last.pre
     /\ last.reply.fault => store = last.pre
     /\ ~last.reply.fault => /\ last.reply.kind = "ImportImage"
                             /\ last.reply.id \in store.images
                             /\ last.name \in Range(Names(store, last.reply.id))

C21_Witness ==
  /\ last.op = "ImportImage"
  /\ last.message = "hello"
  /\ Len(last.changes) = 2
  /\ ChangesOk(last.changes)
  /\ last.reply.kind = "ImportImage"
  /\ last.imported.History = <<[Comment |-> "hello"]>>
  /\ last.reply.id \notin last.pre.images

(***************************************************************************)
(* Properties of calls served next to each other (checked under SpecConc). *)
(***************************************************************************)
Returned(op) == run.op = op /\ run.pc = "done"

\* C22: DeleteUnusedImages, in any interleaving with calls that add a container
\* reference, removes no image that a container references at the moment of
\* the removal, and a normal reply lists exactly the IDs of the images the
\* call removed; a call that ends with a fault lists nothing.
C22_DeleteSparesReferenced ==
  /\ run.op = "DeleteUnusedImages" => run.inuse = {}
  /\ Returned("DeleteUnusedImages") =>
       IF run.reply.fault THEN run.reply.ids = <<>>
       ELSE run.reply.kind = "DeleteUnusedImages" /\ run.reply.ids = run.acc

\* the removal of an image was refused because a container had come to
\* reference it after the call found it unused; the image removed before it
\* is gone and the referenced one is still in the store
C22_Witness ==
  /\ Returned("DeleteUnusedImages")
  /\ run.reply.fault
  /\ run.acc = <<IdA1>>
  /\ run.todo # <<>>
  /\ Head(run.todo) \in store.images
  /\ Containers(store, Head(run.todo)) > 0

\* C22 as stated: whatever way the call ends, what it sends back lists exactly
\* the IDs of the images it removed.
C22_EveryEndListsRemoved ==
  /\ run.op = "DeleteUnusedImages" => run.inuse = {}
  /\ Returned("DeleteUnusedImages") => run.reply.ids = run.acc

\* the summary shows the image as it was in one of the store states
ExistedAs(sum, s) ==
  /\ sum.Id \in s.images
  /\ sum.RepoTags = Names(s, sum.Id)
  /\ sum.Containers = Containers(s, sum.Id)

\* C26: every summary that ListImages or GetImage replies shows the image as
\* it was at one instant during the call: its ID, tag names and container
\* count are those of one store state, not a mixture of states before and
\* after the changes other calls made meanwhile.
C26_SummariesAreSnapshots ==
  (/\ run.op \in {"ListImages", "GetImage"}
   /\ run.pc = "done"
   /\ run.reply.kind = run.op)
  => \A k \in 1..Len(run.reply.list) : \E s \in run.hist : ExistedAs(run.reply.list[k], s)

\* C27: ImagesPrune never removes an image that a container references at the
\* moment of the removal, even when the reference was created after the prune
\* set was computed.
C27_PruneSparesReferenced ==
  run.op = "ImagesPrune" => run.inuse = {}

====
